---------------------------- MODULE Spec2Model ----------------------------
(***************************************************************************)
(* News Analyst QC dashboard (src/main.py): the value helpers              *)
(* clean_value / normalize_value / rows_differ and the save_changes        *)
(* callback (fresh baseline read, diff, one transaction of UPDATEs).       *)
(*                                                                         *)
(* Python values are tagged records [k, n, e, s]:                          *)
(*   k = "null"  None                                                      *)
(*   k = "nan"   float('nan') (what pandas puts in a missing cell)         *)
(*   k = "bool"  n = 1 / 0                                                 *)
(*   k = "int"   n                                                         *)
(*   k = "float" n / 10^e, kept canonical (no trailing zero in n if e > 0) *)
(*   k = "str"   s, a sequence of one-character strings                    *)
(*   k = "uuid"  a native uuid.UUID, s its canonical (lower-case) text     *)
(***************************************************************************)
EXTENDS Integers, Sequences, FiniteSets, TLC

VARIABLES
  store,         \* table news: uuid text |-> [column |-> value]
  grid,          \* rowData held by the browser grid: sequence of rows
  pc,            \* position of the save_changes callback
  rows,          \* the rowData the running callback received
  base_df,       \* baseline read by the callback: id text |-> editable values
  diff_ids,      \* the changed identifiers, in iteration order
  pos,           \* index in diff_ids of the next UPDATE
  tx,            \* UPDATE payloads executed in the open transaction
  ops,           \* engine calls made by the current callback invocation
  popup,         \* message shown in the popup ("" when hidden)
  steps,         \* number of grid edits and foreign writes so far
  edited,        \* grid cells <<row index, column>> the analyst changed
  otherWrote,    \* store cells <<uuid text, column>> another process wrote between saves
  committedSnap, \* rowData of the last committed save, NoSnap after a foreign write
  repeat,        \* the running save repeats committedSnap
  nv             \* the helper calls of SpecNorm: arguments and results

vars == <<store, grid, pc, rows, base_df, diff_ids, pos, tx, ops, popup, steps,
          edited, otherWrote, committedSnap, repeat, nv>>

\* Bound on the number of grid edits plus foreign writes in a behaviour.
MaxSteps == 2

-----------------------------------------------------------------------------
(* Python values *)

None == [k |-> "null", n |-> 0, e |-> 0, s |-> <<>>]
NaN == [k |-> "nan", n |-> 0, e |-> 0, s |-> <<>>]
BoolV(b) == [k |-> "bool", n |-> IF b THEN 1 ELSE 0, e |-> 0, s |-> <<>>]
IntV(i) == [k |-> "int", n |-> i, e |-> 0, s |-> <<>>]
StrV(t) == [k |-> "str", n |-> 0, e |-> 0, s |-> t]
UuidV(t) == [k |-> "uuid", n |-> 0, e |-> 0, s |-> t]

RECURSIVE Pow10(_)
Pow10(i) == IF i = 0 THEN 1 ELSE 10 * Pow10(i - 1)

\* The float n / 10^e in canonical form.
RECURSIVE FloatV(_, _)
FloatV(n, e) ==
  IF e > 0 /\ n % 10 = 0 THEN FloatV(n \div 10, e - 1)
  ELSE [k |-> "float", n |-> n, e |-> e, s |-> <<>>]

-----------------------------------------------------------------------------
(* Python str methods and the int / float / uuid.UUID constructors *)

UpperChars == <<"A","B","C","D","E","F","G","H","I","J","K","L","M",
                "N","O","P","Q","R","S","T","U","V","W","X","Y","Z">>
LowerChars == <<"a","b","c","d","e","f","g","h","i","j","k","l","m",
                "n","o","p","q","r","s","t","u","v","w","x","y","z">>
DigitChars == <<"0","1","2","3","4","5","6","7","8","9">>
HexChars == {"0","1","2","3","4","5","6","7","8","9","a","b","c","d","e","f"}

Range(q) == {q[i] : i \in DOMAIN q}

LowerChar(c) ==
  IF c \in Range(UpperChars)
  THEN LowerChars[CHOOSE i \in DOMAIN UpperChars : UpperChars[i] = c]
  ELSE c

\* str.lower()
lower(t) == [i \in DOMAIN t |-> LowerChar(t[i])]

Front(t) == SubSeq(t, 1, Len(t) - 1)

\* str.strip()
RECURSIVE strip(_)
strip(t) ==
  IF t = <<>> THEN t
  ELSE IF t[1] = " " THEN strip(Tail(t))
  ELSE IF t[Len(t)] = " " THEN strip(Front(t))
  ELSE t

IsDigits(t) == \A i \in DOMAIN t : t[i] \in Range(DigitChars)

DigitVal(c) == (CHOOSE i \in DOMAIN DigitChars : DigitChars[i] = c) - 1

RECURSIVE DigitsVal(_)
DigitsVal(t) ==
  IF t = <<>> THEN 0 ELSE DigitsVal(Front(t)) * 10 + DigitVal(t[Len(t)])

Signed(t) == t # <<>> /\ t[1] \in {"+", "-"}
Unsigned(t) == IF Signed(t) THEN Tail(t) ELSE t
SignOf(t) == IF Signed(t) /\ t[1] = "-" THEN -1 ELSE 1

\* int(s) succeeds: an optional sign and at least one digit (s already stripped).
IntParses(t) == Unsigned(t) # <<>> /\ IsDigits(Unsigned(t))
IntOf(t) == SignOf(t) * DigitsVal(Unsigned(t))

HasDot(t) == "." \in Range(t)
DotAt(t) == CHOOSE i \in DOMAIN t : t[i] = "." /\ \A j \in 1..(i - 1) : t[j] # "."
IntPart(t) == SubSeq(t, 1, DotAt(t) - 1)
FracPart(t) == SubSeq(t, DotAt(t) + 1, Len(t))

\* float(s) succeeds on a decimal literal: sign, digits, at most one point, one
\* digit at least.  (Exponents and inf do not occur in the values used here.)
FloatParses(t) ==
  LET u == Unsigned(t) IN
  IF HasDot(u)
  THEN /\ IsDigits(IntPart(u))
       /\ IsDigits(FracPart(u))
       /\ IntPart(u) \o FracPart(u) # <<>>
  ELSE IntParses(t)
FloatOf(t) ==
  LET u == Unsigned(t) IN
  IF HasDot(u)
  THEN FloatV(SignOf(t) * DigitsVal(IntPart(u) \o FracPart(u)), Len(FracPart(u)))
  ELSE FloatV(IntOf(t), 0)

\* uuid.UUID(s) succeeds: hexadecimal digits in either case (the 32 digits of a
\* real identifier are shortened); the result is case-insensitive.
UuidParses(t) == t # <<>> /\ \A i \in DOMAIN t : LowerChar(t[i]) \in HexChars
UuidOf(t) == UuidV(lower(t))

-----------------------------------------------------------------------------
(* The helpers of src/main.py *)

UNIQUE_COL == "news_id"

\* clean_value: NaN-like values become None, everything else is returned as is.
clean_value(x) ==
  IF x.k = "null" THEN None
  ELSE IF x.k = "nan" THEN None
  ELSE IF x.k = "str" /\ lower(strip(x.s)) \in {<<"n","a","n">>, <<"<","n","a",">">>, <<>>}
       THEN None
  ELSE x

\* normalize_value: the comparison form of a value.
normalize_value(v) ==
  IF v.k = "null" THEN None
  ELSE IF v.k = "nan" THEN None
  ELSE IF v.k = "uuid" THEN StrV(v.s)
  ELSE IF v.k = "str" THEN
    LET t == strip(v.s) IN
    IF lower(t) = <<"t","r","u","e">> THEN BoolV(TRUE)
    ELSE IF lower(t) = <<"f","a","l","s","e">> THEN BoolV(FALSE)
    ELSE IF HasDot(t) THEN (IF FloatParses(t) THEN FloatOf(t) ELSE StrV(t))
    ELSE IF IntParses(t) THEN IntV(IntOf(t))
    ELSE StrV(t)
  ELSE v

NumericKinds == {"bool", "int", "float"}

\* Python's v1 == v2 on normalized values: bool, int and float compare by
\* numeric value, every other kind only with its own kind.
PyEq(a, b) ==
  IF a.k \in NumericKinds /\ b.k \in NumericKinds
  THEN a.n * Pow10(b.e) = b.n * Pow10(a.e)
  ELSE a = b

\* row.get(col)
Get(row, col) == IF col \in DOMAIN row THEN row[col] ELSE None

\* rows_differ returning from inside the loop: only the first column is compared.
rows_differ_first(row1, row2, cols) ==
  /\ cols # <<>>
  /\ ~PyEq(normalize_value(Get(row1, Head(cols))), normalize_value(Get(row2, Head(cols))))

\* rows_differ: the first column whose normalized values are unequal decides.
RECURSIVE rows_differ(_, _, _)
rows_differ(row1, row2, cols) ==
  IF cols = <<>> THEN FALSE
  ELSE LET v1 == normalize_value(Get(row1, Head(cols)))
           v2 == normalize_value(Get(row2, Head(cols)))
       IN IF ~PyEq(v1, v2) THEN TRUE ELSE rows_differ(row1, row2, Tail(cols))

\* The editable_cols list of save_changes.
editable_cols ==
  <<"analyst_dup", "analyst_cat", "analyst_cat_id", "analyst_risk_level",
    "analyst_tag", "analyst_approval", "analyst_remark">>
EditableSet == Range(editable_cols)

\* A column of the table that the UPDATE statement does not set.
ReadOnlyCol == "risk_rating"
StoreCols == EditableSet \cup {ReadOnlyCol}

-----------------------------------------------------------------------------
(* save_changes: the frame, the baseline, the diff and the UPDATE payload *)

RECURSIVE IntText(_)
IntText(i) ==
  IF i < 0 THEN <<"-">> \o IntText(-i)
  ELSE IF i < 10 THEN <<DigitChars[i + 1]>>
  ELSE IntText(i \div 10) \o <<DigitChars[(i % 10) + 1]>>

\* str(x), as astype(str) and str(data["analyst_cat_id"]) apply it.  (The
\* identifiers and category identifiers of a submission are never floats.)
PyStr(x) ==
  CASE x.k = "str" -> x.s
    [] x.k = "uuid" -> x.s
    [] x.k = "nan" -> <<"n","a","n">>
    [] x.k = "null" -> <<"N","o","n","e">>
    [] x.k = "bool" -> IF x.n = 1 THEN <<"T","r","u","e">> ELSE <<"F","a","l","s","e">>
    [] x.k = "int" -> IntText(x.n)

\* The columns of pd.DataFrame(rows): every key of every row.
Columns(rs) == UNION {DOMAIN rs[i] : i \in DOMAIN rs}

\* UNIQUE_COL in new_df.columns
HasUniqueCol(rs) == UNIQUE_COL \in Columns(rs)

\* pd.DataFrame(rows) indexed by news_id cast to str: a cell a row lacks is NaN.
NewDf(rs) ==
  [i \in DOMAIN rs |->
     [id |-> PyStr(IF UNIQUE_COL \in DOMAIN rs[i] THEN rs[i][UNIQUE_COL] ELSE NaN),
      row |-> [c \in Columns(rs) \ {UNIQUE_COL} |->
                 IF c \in DOMAIN rs[i] THEN rs[i][c] ELSE NaN]]]

\* analyst_cat_id::text
TextCast(x) == IF x.k = "uuid" THEN StrV(x.s) ELSE x

\* The baseline SELECT: the editable columns of every record, keyed by
\* news_id::text.
ReadBaseline(st) ==
  [t \in DOMAIN st |->
     [c \in EditableSet |->
        IF c = "analyst_cat_id" THEN TextCast(st[t][c]) ELSE st[t][c]]]

\* The diff loop: one entry per client row that is unknown to the baseline
\* or differs from it.
RECURSIVE ComputeDiff(_, _)
ComputeDiff(df, base) ==
  IF df = <<>> THEN <<>>
  ELSE LET idx == Head(df).id
           hit == IF idx \notin DOMAIN base THEN TRUE
                  ELSE rows_differ(Head(df).row, base[idx], editable_cols)
       IN (IF hit THEN <<idx>> ELSE <<>>) \o ComputeDiff(Tail(df), base)

\* The early return on an empty diff left out.
NoChanges_never(d) == FALSE

\* if not diff_ids
NoChanges(d) == d = <<>>

\* new_df.loc[[news_id_str]].iloc[0]: the first row carrying the identifier.
FirstRow(df, id) ==
  df[CHOOSE i \in DOMAIN df : df[i].id = id /\ \A j \in 1..(i - 1) : df[j].id # id].row

Trunc(f) == IF f.n >= 0 THEN f.n \div Pow10(f.e) ELSE -((-f.n) \div Pow10(f.e))

\* int(float(x)) succeeds
IntFloatOk(x) ==
  \/ x.k \in NumericKinds
  \/ x.k = "str" /\ FloatParses(strip(x.s))
IntFloat(x) ==
  IF x.k = "str" THEN IntV(Trunc(FloatOf(strip(x.s)))) ELSE IntV(Trunc(x))

\* The risk level of the payload: int(float(x)), or x itself when that raises.
RiskLevel(x) ==
  IF x.k = "null" THEN x ELSE IF IntFloatOk(x) THEN IntFloat(x) ELSE x

\* The category identifier of the payload: uuid.UUID(str(x)), or x itself.
CatId(x) ==
  IF x.k = "null" THEN x
  ELSE IF UuidParses(PyStr(x)) THEN UuidOf(PyStr(x)) ELSE x

\* The news_id of the payload: uuid.UUID(news_id_str), or the string itself.
NewsId(id) == IF UuidParses(id) THEN UuidOf(id) ELSE StrV(id)

\* The parameters of one UPDATE statement.
BuildData(df, id) ==
  LET row == FirstRow(df, id)
      cv(c) == clean_value(Get(row, c))
  IN [c \in EditableSet \cup {UNIQUE_COL} |->
        IF c = UNIQUE_COL THEN NewsId(id)
        ELSE IF c = "analyst_risk_level" THEN RiskLevel(cv(c))
        ELSE IF c = "analyst_cat_id" THEN CatId(cv(c))
        ELSE cv(c)]

\* The news_id column is a uuid column: a parameter that is not one is rejected
\* by the store and the statement raises.
StoreAccepts(data) == data[UNIQUE_COL].k = "uuid"

\* The UPDATE without its WHERE clause.
ApplyUpdate_nowhere(st, data) ==
  [t \in DOMAIN st |->
     [c \in DOMAIN st[t] |-> IF c \in EditableSet THEN data[c] ELSE st[t][c]]]

\* UPDATE news SET <the seven editable columns> WHERE news_id = :news_id
ApplyUpdate(st, data) ==
  [t \in DOMAIN st |->
     IF data[UNIQUE_COL] = UuidV(t)
     THEN [c \in DOMAIN st[t] |-> IF c \in EditableSet THEN data[c] ELSE st[t][c]]
     ELSE st[t]]

RECURSIVE ApplyAll(_, _)
ApplyAll(st, txs) ==
  IF txs = <<>> THEN st ELSE ApplyAll(ApplyUpdate(st, Head(txs)), Tail(txs))

\* with engine.begin(): leaving the block normally commits every statement,
\* leaving it by an exception rolls all of them back.
OnCommit(st, txs) == ApplyAll(st, txs)
\* engine.connect() with autocommit: the statements executed before the failure stay.
OnError_partial(st, txs) == ApplyAll(st, txs)
OnError(st, txs) == st

-----------------------------------------------------------------------------
(* The data the behaviours start from and the values they draw *)

Id1 == <<"a","1">>
Id2 == <<"b","2">>
IdNew == <<"e","9">>       \* a well-formed identifier no record carries
IdUpper == <<"A","1">>     \* Id1 written in upper case

SFraud == <<"F","r","a","u","d">>
STheft == <<"T","h","e","f","t">>
SHigh == <<"H","i","g","h">>
SLow == <<"L","o","w">>
SUrgent == <<"u","r","g","e","n","t">>
SSpam == <<"s","p","a","m">>
STrue == <<"t","r","u","e">>
SNaN == <<"N","a","N">>
SFive == <<"5">>
SFivePointZero == <<" ","5",".","0">>
SOnePointZero == <<"1",".","0">>
SThreePointSeven == <<"3",".","7">>
SOne == <<"1">>
SBad == <<"z","z">>
CatIdFraud == <<"c","1">>
CatIdTheft == <<"d","4">>

\* CAT_LOOKUP, built from the categories table.
CAT_LOOKUP ==
  [cat \in {SFraud, STheft} |->
     IF cat = SFraud
     THEN [risk_level |-> IntV(1), risk_rating |-> StrV(SHigh), category_id |-> StrV(CatIdFraud)]
     ELSE [risk_level |-> IntV(3), risk_rating |-> StrV(SLow), category_id |-> StrV(CatIdTheft)]]

\* The table at start-up: one record not yet reviewed, one reviewed.
InitStore ==
  [t \in {Id1, Id2} |->
     IF t = Id1
     THEN [c \in StoreCols |-> None]
     ELSE [c \in StoreCols |->
             CASE c = "analyst_dup" -> BoolV(TRUE)
               [] c = "analyst_cat" -> StrV(SFraud)
               [] c = "analyst_cat_id" -> UuidV(CatIdFraud)
               [] c = "analyst_risk_level" -> IntV(1)
               [] c = "analyst_tag" -> StrV(SUrgent)
               [] c = "analyst_approval" -> BoolV(FALSE)
               [] c = "analyst_remark" -> StrV(SFive)
               [] c = "risk_rating" -> StrV(SHigh)]]

\* The order in which SELECT * returns the records.
StoreOrder == <<Id1, Id2>>

\* load_news: every column of every record, uuid values as strings.
load_news(st) ==
  [i \in DOMAIN StoreOrder |->
     [c \in StoreCols \cup {UNIQUE_COL} |->
        IF c = UNIQUE_COL THEN StrV(StoreOrder[i])
        ELSE TextCast(st[StoreOrder[i]][c])]]

\* Values a cell of the submitted rowData may take.
CellVals(c) ==
  CASE c = "analyst_dup" -> {BoolV(FALSE), StrV(STrue)}
    [] c = "analyst_cat" -> {}
    [] c = "analyst_cat_id" -> {StrV(SBad)}
    [] c = "analyst_risk_level" ->
         {StrV(SOnePointZero), StrV(SThreePointSeven), StrV(SHigh)}
    [] c = "analyst_tag" -> {StrV(SSpam), StrV(<<>>)}
    [] c = "analyst_approval" -> {BoolV(TRUE)}
    [] c = "analyst_remark" -> {StrV(SFive), StrV(SFivePointZero)}
    [] c = "risk_rating" -> {StrV(SLow)}

\* Identifiers a row of the submitted rowData may carry.
KeyVals == {Id1, IdNew, IdUpper}

\* Values another process writes.
OtherVals(c) ==
  CASE c = "analyst_dup" -> {BoolV(FALSE)}
    [] c = "analyst_cat" -> {StrV(STheft)}
    [] c = "analyst_cat_id" -> {UuidV(CatIdTheft)}
    [] c = "analyst_risk_level" -> {IntV(3)}
    [] c = "analyst_tag" -> {StrV(SSpam)}
    [] c = "analyst_approval" -> {BoolV(TRUE)}
    [] c = "analyst_remark" -> {StrV(SSpam)}

SetCell(r, c, v) == [x \in DOMAIN r \cup {c} |-> IF x = c THEN v ELSE r[x]]
DropCell(r, c) == [x \in DOMAIN r \ {c} |-> r[x]]

NoCall == [a |-> None, b |-> None, na |-> None, nb |-> None, differ |-> FALSE, pc |-> "off"]

-----------------------------------------------------------------------------
(* The dashboard: grid edits, foreign writes, the save callback *)

Init ==
  /\ store = InitStore
  /\ grid = load_news(InitStore)
  /\ pc = "idle"
  /\ rows = <<>>
  /\ base_df = <<>>
  /\ diff_ids = <<>>
  /\ pos = 0
  /\ tx = <<>>
  /\ ops = <<>>
  /\ popup = ""
  /\ steps = 0
  /\ edited = {}
  /\ otherWrote = {}
  /\ committedSnap = <<>>
  /\ repeat = FALSE
  /\ nv = NoCall

CanEdit == pc = "idle" /\ popup = "" /\ steps < MaxSteps

saveLocals == <<pc, rows, base_df, diff_ids, pos, tx, ops, popup, repeat>>

\* A cell of the rowData takes a new value.
EditCell ==
  /\ CanEdit
  /\ \E i \in DOMAIN grid : \E c \in StoreCols : \E v \in CellVals(c) :
       /\ Get(grid[i], c) # v
       /\ grid' = [grid EXCEPT ![i] = SetCell(@, c, v)]
       /\ edited' = edited \cup {<<i, c>>}
  /\ steps' = steps + 1
  /\ UNCHANGED <<store, saveLocals, otherWrote, committedSnap, nv>>

\* The valueSetter of analyst_cat: a category of the lookup fills the
\* dependent cells too.
SelectCat ==
  /\ CanEdit
  /\ \E i \in DOMAIN grid : \E cat \in DOMAIN CAT_LOOKUP :
       LET r1 == SetCell(grid[i], "analyst_cat", StrV(cat))
           r2 == SetCell(r1, "analyst_risk_level", CAT_LOOKUP[cat].risk_level)
           r3 == SetCell(r2, "risk_rating", CAT_LOOKUP[cat].risk_rating)
           r4 == SetCell(r3, "analyst_cat_id", CAT_LOOKUP[cat].category_id)
       IN /\ r4 # grid[i]
          /\ grid' = [grid EXCEPT ![i] = r4]
          /\ edited' = edited \cup
               {<<i, c>> : c \in {"analyst_cat", "analyst_risk_level",
                                  "risk_rating", "analyst_cat_id"}}
  /\ steps' = steps + 1
  /\ UNCHANGED <<store, saveLocals, otherWrote, committedSnap, nv>>

\* The rowData the callback receives is whatever the client sends: a row may
\* carry another identifier, ...
PostKey ==
  /\ CanEdit
  /\ \E i \in DOMAIN grid : \E id \in KeyVals :
       /\ Get(grid[i], UNIQUE_COL) # StrV(id)
       /\ grid' = [grid EXCEPT ![i] = SetCell(@, UNIQUE_COL, StrV(id))]
       /\ edited' = edited \cup {<<i, UNIQUE_COL>>}
  /\ steps' = steps + 1
  /\ UNCHANGED <<store, saveLocals, otherWrote, committedSnap, nv>>

\* ... or none, ...
PostDropKey ==
  /\ CanEdit
  /\ \E i \in DOMAIN grid :
       /\ UNIQUE_COL \in DOMAIN grid[i]
       /\ grid' = [grid EXCEPT ![i] = DropCell(@, UNIQUE_COL)]
       /\ edited' = edited \cup {<<i, UNIQUE_COL>>}
  /\ steps' = steps + 1
  /\ UNCHANGED <<store, saveLocals, otherWrote, committedSnap, nv>>

\* ... or there may be no rows at all.
PostNoRows ==
  /\ CanEdit
  /\ grid # <<>>
  /\ grid' = <<>>
  /\ edited' = {}
  /\ steps' = steps + 1
  /\ UNCHANGED <<store, saveLocals, otherWrote, committedSnap, nv>>

\* The identifiers the open transaction has updated (and holds locked).
Locked == {tx[j][UNIQUE_COL].s : j \in DOMAIN tx}

\* Another process commits a new value of an editable column.
OtherWrite ==
  /\ pc \in {"idle", "write"}
  /\ popup = ""
  /\ steps < MaxSteps
  /\ \E t \in DOMAIN store \ Locked : \E c \in EditableSet : \E v \in OtherVals(c) :
       /\ store[t][c] # v
       /\ store' = [store EXCEPT ![t][c] = v]
       /\ otherWrote' = IF pc = "idle" THEN otherWrote \cup {<<t, c>>} ELSE otherWrote
  /\ committedSnap' = <<>>
  /\ steps' = steps + 1
  /\ UNCHANGED <<grid, saveLocals, edited, nv>>

\* save_changes, Save button, no rows: "No rows received".
SaveNoRows ==
  /\ pc = "idle" /\ popup = ""
  /\ grid = <<>>
  /\ rows' = grid
  /\ repeat' = (committedSnap = <<grid>>)
  /\ popup' = "no_rows"
  /\ pc' = "returned"
  /\ UNCHANGED <<store, grid, base_df, diff_ids, pos, tx, ops, steps, edited,
                 otherWrote, committedSnap, nv>>

\* save_changes, Save button, no news_id column: "Missing unique column".
SaveMissingCol ==
  /\ pc = "idle" /\ popup = ""
  /\ grid # <<>>
  /\ ~HasUniqueCol(grid)
  /\ rows' = grid
  /\ repeat' = (committedSnap = <<grid>>)
  /\ popup' = "missing_col"
  /\ pc' = "returned"
  /\ UNCHANGED <<store, grid, base_df, diff_ids, pos, tx, ops, steps, edited,
                 otherWrote, committedSnap, nv>>

\* save_changes, Save button: the baseline is read and the diff computed;
\* without changes "No changes to save", else the transaction is opened.
SaveDiff ==
  /\ pc = "idle" /\ popup = ""
  /\ grid # <<>>
  /\ HasUniqueCol(grid)
  /\ rows' = grid
  /\ repeat' = (committedSnap = <<grid>>)
  /\ base_df' = ReadBaseline(store)
  /\ diff_ids' = ComputeDiff(NewDf(grid), ReadBaseline(store))
  /\ IF NoChanges(diff_ids')
     THEN /\ ops' = <<"select">>
          /\ popup' = "no_changes"
          /\ pc' = "returned"
          /\ pos' = pos
     ELSE /\ ops' = <<"select", "begin">>
          /\ popup' = popup
          /\ pc' = "write"
          /\ pos' = 1
  /\ UNCHANGED <<store, grid, tx, steps, edited, otherWrote, committedSnap, nv>>

\* One UPDATE of the loop executes.
ExecUpdate ==
  /\ pc = "write"
  /\ pos <= Len(diff_ids)
  /\ StoreAccepts(BuildData(NewDf(rows), diff_ids[pos]))
  /\ tx' = Append(tx, BuildData(NewDf(rows), diff_ids[pos]))
  /\ pos' = pos + 1
  /\ ops' = Append(ops, "update")
  /\ UNCHANGED <<store, grid, pc, rows, base_df, diff_ids, popup, steps, edited,
                 otherWrote, committedSnap, repeat, nv>>

\* One UPDATE of the loop raises (the store rejects it, or is unreachable):
\* the transaction is rolled back and the callback raises.
FailUpdate ==
  /\ pc = "write"
  /\ pos <= Len(diff_ids)
  /\ store' = OnError(store, tx)
  /\ tx' = <<>>
  /\ ops' = ops \o <<"update", "rollback">>
  /\ pc' = "raised"
  /\ UNCHANGED <<grid, rows, base_df, diff_ids, pos, popup, steps, edited,
                 otherWrote, committedSnap, repeat, nv>>

\* The loop is over: the transaction commits, "Saved N records".
Commit ==
  /\ pc = "write"
  /\ pos > Len(diff_ids)
  /\ store' = OnCommit(store, tx)
  /\ otherWrote' = {w \in otherWrote : w[1] \notin Locked}
  /\ committedSnap' = <<rows>>
  /\ ops' = Append(ops, "commit")
  /\ popup' = "saved"
  /\ pc' = "returned"
  /\ UNCHANGED <<grid, rows, base_df, diff_ids, pos, tx, steps, edited, repeat, nv>>

\* The callback invocation is over; its locals are gone.
ExitCallback ==
  /\ pc \in {"returned", "raised"}
  /\ pc' = "idle"
  /\ rows' = <<>>
  /\ base_df' = <<>>
  /\ diff_ids' = <<>>
  /\ pos' = 0
  /\ tx' = <<>>
  /\ ops' = <<>>
  /\ repeat' = FALSE
  /\ UNCHANGED <<store, grid, popup, steps, edited, otherWrote, committedSnap, nv>>

\* save_changes, OK button of the popup: the popup is hidden.
ClosePopup ==
  /\ pc = "idle"
  /\ popup # ""
  /\ popup' = ""
  /\ UNCHANGED <<store, grid, pc, rows, base_df, diff_ids, pos, tx, ops, steps,
                 edited, otherWrote, committedSnap, repeat, nv>>

Next ==
  \/ EditCell
  \/ SelectCat
  \/ PostKey
  \/ PostDropKey
  \/ PostNoRows
  \/ OtherWrite
  \/ SaveNoRows
  \/ SaveMissingCol
  \/ SaveDiff
  \/ ExecUpdate
  \/ FailUpdate
  \/ Commit
  \/ ExitCallback
  \/ ClosePopup

Spec == Init /\ [][Next]_vars

-----------------------------------------------------------------------------
(* The helpers alone: rows_differ on one column, for every pair of values *)

SampleValues ==
  {None, NaN, BoolV(TRUE), BoolV(FALSE), IntV(1), IntV(5), FloatV(10, 1), FloatV(37, 1),
   StrV(<<>>), StrV(SNaN), StrV(STrue), StrV(SFive), StrV(SOne), StrV(SOnePointZero),
   StrV(SFivePointZero), StrV(SUrgent), UuidV(CatIdFraud), StrV(CatIdFraud)}

InitNorm ==
  /\ store = InitStore
  /\ grid = load_news(InitStore)
  /\ pc = "idle"
  /\ rows = <<>>
  /\ base_df = <<>>
  /\ diff_ids = <<>>
  /\ pos = 0
  /\ tx = <<>>
  /\ ops = <<>>
  /\ popup = ""
  /\ steps = 0
  /\ edited = {}
  /\ otherWrote = {}
  /\ committedSnap = <<>>
  /\ repeat = FALSE
  /\ nv \in {[a |-> x, b |-> y, na |-> None, nb |-> None, differ |-> FALSE, pc |-> "start"] :
               x \in SampleValues, y \in SampleValues}

dashboard == <<store, grid, pc, rows, base_df, diff_ids, pos, tx, ops, popup, steps,
               edited, otherWrote, committedSnap, repeat>>

\* v1 = normalize_value(row1.get(col))
NormFirst ==
  /\ nv.pc = "start"
  /\ nv' = [nv EXCEPT !.na = normalize_value(nv.a), !.pc = "first"]
  /\ UNCHANGED dashboard

\* v2 = normalize_value(row2.get(col))
NormSecond ==
  /\ nv.pc = "first"
  /\ nv' = [nv EXCEPT !.nb = normalize_value(nv.b), !.pc = "both"]
  /\ UNCHANGED dashboard

\* rows_differ on the two one-column rows returns.
Compare ==
  /\ nv.pc = "both"
  /\ nv' = [nv EXCEPT
              !.differ = rows_differ([analyst_tag |-> nv.a], [analyst_tag |-> nv.b],
                                     <<"analyst_tag">>),
              !.pc = "compared"]
  /\ UNCHANGED dashboard

NextNorm == NormFirst \/ NormSecond \/ Compare

SpecNorm == InitNorm /\ [][NextNorm]_vars

-----------------------------------------------------------------------------
(* Properties *)

Selected == "select" \in Range(ops)
Began == "begin" \in Range(ops)

\* The record a changed identifier denotes: the uuid it parses to.
Targets(id, t) == NewsId(id) = UuidV(t)

\* The last UPDATE of the batch that addresses record t.
LastFor(t) ==
  CHOOSE j \in DOMAIN diff_ids :
    /\ Targets(diff_ids[j], t)
    /\ \A j2 \in DOMAIN diff_ids : Targets(diff_ids[j2], t) => j2 <= j

\* C1: batch atomicity.  Every step of a save leaves the store as it was,
\* whichever UPDATE fails (the last one included), except the commit, which
\* applies the updates of all changed identifiers at once.
BatchAtomic ==
  [][ops' # ops =>
       IF pc = "write" /\ pc' = "returned"
       THEN \A t \in DOMAIN store :
              IF \E j \in DOMAIN diff_ids : Targets(diff_ids[j], t)
              THEN \A c \in EditableSet :
                     store'[t][c] = BuildData(NewDf(rows), diff_ids[LastFor(t)])[c]
              ELSE store'[t] = store[t]
       ELSE store' = store]_vars

\* C1 witness: the last UPDATE of a batch of two or more failed after the
\* earlier ones had executed, and the first of them would have changed the store.
BatchAtomicWitness ==
  /\ pc = "raised"
  /\ Len(diff_ids) >= 2
  /\ pos = Len(diff_ids)
  /\ ApplyUpdate(store, BuildData(NewDf(rows), diff_ids[1])) # store

\* The analyst changed neither cell c of the row loaded from record t nor any
\* identifier.
AnalystLeft(t, c) ==
  /\ \A i \in DOMAIN rows : <<i, UNIQUE_COL>> \notin edited
  /\ \A i \in DOMAIN rows : StoreOrder[i] = t => <<i, c>> \notin edited

\* C2: a save does not clobber a concurrent edit.  A cell another process
\* wrote after the grid was loaded and before the save, and that the analyst
\* did not edit, keeps the other process's value when the save commits.
NoClobber ==
  [][(pc = "write" /\ pc' = "returned") =>
       \A w \in otherWrote :
         AnalystLeft(w[1], w[2]) => store'[w[1]][w[2]] = store[w[1]][w[2]]]_vars

\* C3: idempotence.  A save of the snapshot that the previous save committed,
\* with no foreign write in between, reports "no changes" and writes nothing.
Idempotent ==
  repeat => pc = "returned" /\ popup = "no_changes" /\ ~Began

\* Client row i is unknown to the baseline or has an editable field whose
\* normalized value compares unequal to the baseline's.
Differs(i) ==
  LET r == NewDf(rows)[i] IN
  \/ r.id \notin DOMAIN base_df
  \/ \E c \in EditableSet :
       ~PyEq(normalize_value(Get(r.row, c)), normalize_value(base_df[r.id][c]))

\* Client row i is known to the baseline and every editable field has the very
\* same normalized value, kind included.
Identical(i) ==
  LET r == NewDf(rows)[i] IN
  /\ r.id \in DOMAIN base_df
  /\ \A c \in EditableSet :
       normalize_value(Get(r.row, c)) = normalize_value(base_df[r.id][c])

\* C4: the changed set is exactly the identifiers of the client rows that are
\* absent from the baseline or have an editable field whose normalized value
\* compares unequal to the baseline's; a row normalized-identical to its
\* baseline record never puts its identifier in the set.
ChangedSetExact ==
  Selected =>
    /\ Range(diff_ids) = {NewDf(rows)[i].id : i \in {j \in DOMAIN rows : Differs(j)}}
    /\ \A i \in DOMAIN rows :
         (\A j \in DOMAIN rows : NewDf(rows)[j].id = NewDf(rows)[i].id => Identical(j))
           => NewDf(rows)[i].id \notin Range(diff_ids)

\* C4 witness: of two known rows one differs in a later column only and is in
\* the changed set, the other is unchanged and is not.
ChangedSetWitness ==
  /\ Selected
  /\ Len(rows) = 2
  /\ \A i \in DOMAIN rows : NewDf(rows)[i].id \in DOMAIN base_df
  /\ Identical(2)
  /\ diff_ids = <<Id1>>
  /\ PyEq(normalize_value(Get(NewDf(rows)[1].row, "analyst_dup")),
          normalize_value(base_df[Id1]["analyst_dup"]))

\* Some row of the submission has no news_id, or a null one.
Malformed(rs) ==
  \E i \in DOMAIN rs :
    \/ UNIQUE_COL \notin DOMAIN rs[i]
    \/ rs[i][UNIQUE_COL].k \in {"null", "nan"}

\* C6: a submission that lacks the unique identifier (in the whole payload or
\* in one row) gets a message and makes no store access.
MalformedNoAccess ==
  (pc # "idle" /\ Malformed(rows)) => (ops = <<>> /\ popup # "")

\* C7: a save with an empty changed set reports "no changes", opens no write
\* transaction and issues no UPDATE; a transaction is opened only for a
\* non-empty changed set.
NoChangeNoWrite ==
  /\ (Selected /\ diff_ids = <<>>) =>
       (pc = "returned" /\ popup = "no_changes" /\ ops = <<"select">>)
  /\ Began => diff_ids # <<>>
  /\ "update" \in Range(ops) => Began

\* C7 witness: a save of edited rows found nothing to write.
NoChangeWitness ==
  /\ pc = "returned"
  /\ popup = "no_changes"
  /\ edited # {}
  /\ ops = <<"select">>

\* C9: the frame of a save.  No step of a save, committing or failing, inserts
\* or deletes a record, changes a column outside the editable ones, or changes
\* a record that no changed identifier denotes.
SaveFrame ==
  [][ops' # ops =>
       /\ DOMAIN store' = DOMAIN store
       /\ \A t \in DOMAIN store :
            /\ DOMAIN store'[t] = DOMAIN store[t]
            /\ \A c \in DOMAIN store[t] \ EditableSet : store'[t][c] = store[t][c]
            /\ (\A j \in DOMAIN diff_ids : ~Targets(diff_ids[j], t)) => store'[t] = store[t]]_vars

\* C9 witness: a committed save changed one record, whose client row carried
\* another value of the read-only column, and left the other record alone.
SaveFrameWitness ==
  /\ pc = "returned"
  /\ popup = "saved"
  /\ diff_ids = <<Id1>>
  /\ Len(rows) = 2
  /\ Get(rows[1], ReadOnlyCol) # store[Id1][ReadOnlyCol]
  /\ store[Id1] # InitStore[Id1]
  /\ store[Id2] = InitStore[Id2]

\* The storage-clean form of value x for column c.
StorageClean(c, x) ==
  LET v == clean_value(x) IN
  IF c = "analyst_risk_level" THEN RiskLevel(v)
  ELSE IF c = "analyst_cat_id" THEN CatId(v)
  ELSE v

\* C10: after a commit every editable column of a changed record holds the
\* storage-clean form of the value in a client row that marked it changed:
\* NaN-like and absent values null, a parseable risk level an integer, a
\* well-formed category identifier the native one, anything else as submitted.
CommittedValues ==
  [][(pc = "write" /\ pc' = "returned") =>
       \A j \in DOMAIN diff_ids : \A t \in DOMAIN store :
         Targets(diff_ids[j], t) =>
           \E i \in DOMAIN rows :
             /\ NewDf(rows)[i].id = diff_ids[j]
             /\ Differs(i)
             /\ \A c \in EditableSet :
                  store'[t][c] = StorageClean(c, Get(NewDf(rows)[i].row, c))]_vars

\* C5: normalize_value is type-insensitive: "5" and 5 agree, "true" and True
\* agree, and "", null and "NaN" all normalize to null.
TypeInsensitive ==
  nv.pc \in {"both", "compared"} =>
    /\ (nv.a = StrV(SFive) /\ nv.b = IntV(5)) => nv.na = nv.nb
    /\ (nv.a = StrV(STrue) /\ nv.b = BoolV(TRUE)) => nv.na = nv.nb
    /\ nv.a \in {StrV(<<>>), None, StrV(SNaN)} => nv.na = None

\* C8: rows_differ treats two normalized values as equal only when they are of
\* the same kind and the same value.
TypeStable ==
  (nv.pc = "compared" /\ ~nv.differ) => nv.na = nv.nb

=============================================================================
